---- MODULE Spec2Model ----
(***************************************************************************)
(* Model of word_index.py: the Database class (an in-memory inverted       *)
(* index over documents) and its two operations, index and match.          *)
(*                                                                         *)
(* A Python str is a sequence of characters (one-character strings), a     *)
(* document is a function from field names to strs, the inverted index is  *)
(* a function from keys (strs) to sets of ids.                             *)
(***************************************************************************)
EXTENDS Integers, Sequences, FiniteSets, TLC

VARIABLES docs, index, doc_ids, passed, last, call

vars == <<docs, index, doc_ids, passed, last, call>>

(***************************************************************************)
(* Identifiers.  id_ defaults to None; None is kept apart from the         *)
(* integer ids 1..MaxId.                                                   *)
(***************************************************************************)
None == -1

MaxId == 1

Ids == {None} \cup (1..MaxId)

(***************************************************************************)
(* Python str primitives used by the Database.                             *)
(***************************************************************************)
LowerCase == <<"a","b","c","d","e","f","g","h","i","j","k","l","m",
               "n","o","p","q","r","s","t","u","v","w","x","y","z">>

UpperCase == <<"A","B","C","D","E","F","G","H","I","J","K","L","M",
               "N","O","P","Q","R","S","T","U","V","W","X","Y","Z">>

\* str.lower() of one character: A-Z map to a-z; the sharp s is already
\* lower case; every other character is kept.
lower_char(c) ==
    IF \E k \in 1..26 : UpperCase[k] = c
    THEN <<LowerCase[CHOOSE k \in 1..26 : UpperCase[k] = c]>>
    ELSE <<c>>

\* str.upper() of one character: a-z map to A-Z, the sharp s has no single
\* upper-case character and becomes "SS".
upper_char(c) ==
    IF \E k \in 1..26 : LowerCase[k] = c
    THEN <<UpperCase[CHOOSE k \in 1..26 : LowerCase[k] = c]>>
    ELSE IF c = "ß" THEN <<"S", "S">>
    ELSE <<c>>

RECURSIVE str_lower(_)
str_lower(s) ==
    IF s = <<>> THEN <<>> ELSE lower_char(Head(s)) \o str_lower(Tail(s))

RECURSIVE str_upper(_)
str_upper(s) ==
    IF s = <<>> THEN <<>> ELSE upper_char(Head(s)) \o str_upper(Tail(s))

IsSpace(c) == c \in {" ", "\t", "\n"}

\* str.split() with no argument: maximal runs of non-whitespace characters,
\* in order; no empty token is ever produced.
RECURSIVE split_from(_, _, _)
split_from(s, i, cur) ==
    IF i > Len(s)
    THEN (IF cur = <<>> THEN <<>> ELSE <<cur>>)
    ELSE IF IsSpace(s[i])
         THEN (IF cur = <<>> THEN <<>> ELSE <<cur>>) \o split_from(s, i + 1, <<>>)
         ELSE split_from(s, i + 1, Append(cur, s[i]))

RECURSIVE split_each_from(_, _, _)
split_each_from(s, i, cur) ==
    IF i > Len(s)
    THEN <<cur>>
    ELSE IF IsSpace(s[i])
         THEN <<cur>> \o split_each_from(s, i + 1, <<>>)
         ELSE split_each_from(s, i + 1, Append(cur, s[i]))

str_split_each(s) == split_each_from(s, 1, <<>>)

str_split(s) == split_from(s, 1, <<>>)

Range(f) == {f[x] : x \in DOMAIN f}

(***************************************************************************)
(* Database.__strip_key and Database.__lower_strip_words                   *)
(***************************************************************************)
RECURSIVE strip_key_all(_)
strip_key_all(key) ==
    IF key # <<>> /\ key[Len(key)] \in {",", "!", "."}
    THEN strip_key_all(SubSeq(key, 1, Len(key) - 1))
    ELSE key

strip_key(key) ==
    IF key[Len(key)] \in {",", "!", "."}
    THEN SubSeq(key, 1, Len(key) - 1)
    ELSE key

\* key[-1] of the empty str raises IndexError
strip_key_raises(key) == Len(key) = 0

lower_strip_words_raises(doc) ==
    \E f \in DOMAIN doc : \E word \in Range(str_split(doc[f])) :
        strip_key_raises(str_lower(word))

lower_strip_words(doc) ==
    UNION { {strip_key(str_lower(word)) : word \in Range(str_split(doc[f]))}
            : f \in DOMAIN doc }

(***************************************************************************)
(* Vocabulary of the checked inputs: words of the sanity tests, spelled    *)
(* as character sequences.                                                 *)
(***************************************************************************)
prove == <<"p","r","o","v","e">>

proving == <<"p","r","o","v","i","n","g">>

proof == <<"p","r","o","o","f">>

bang == <<"b","a","n","g">>

bangs == <<"b","a","n","g","s">>

wait == <<"w","a","i","t">>

SP == <<" ">>

(***************************************************************************)
(* Morphology provider (word_forms.get_word_forms): from a word to a dict  *)
(* from part of speech to the set of related forms.  Every form of a word  *)
(* family is answered with the whole family; a word the provider does not  *)
(* know gets four empty sets.                                              *)
(***************************************************************************)
NoForms == [n |-> {}, a |-> {}, v |-> {}, r |-> {}]

get_word_forms(word) ==
    IF word \in {prove, proving, proof}
    THEN [n |-> {proof}, a |-> {}, v |-> {prove, proving}, r |-> {}]
    ELSE IF word \in {bang, bangs}
    THEN [n |-> {bang, bangs}, a |-> {}, v |-> {bang, bangs}, r |-> {}]
    ELSE NoForms

(***************************************************************************)
(* Inputs of index: documents (dict from field name to text).              *)
(***************************************************************************)
EmptyDoc == [f \in {} |-> <<>>]

Docs ==
    { EmptyDoc,
      [f \in {"Sheldon"} |-> <<"P">> \o Tail(proving) \o SP \o <<",">>],
      [f \in {"Howard", "Penny"} |->
          IF f = "Penny" THEN bang \o <<"!">> ELSE <<" ", "\t">>],
      [f \in {"Penny", "Raj"} |->
          IF f = "Penny" THEN prove
          ELSE wait \o <<"!", "!">> \o SP \o SP \o bang \o SP \o <<"ß">>] }

(***************************************************************************)
(* Inputs of match: query texts.                                           *)
(***************************************************************************)
Queries ==
    { <<>>,
      str_upper(prove) \o SP \o bangs,
      bang \o <<"!">>,
      <<"ß">> \o SP \o wait \o <<"!">> }

(***************************************************************************)
(* Database.__reindex_if_doc_in_db: when id_ is known, take id_ out of the *)
(* posting list of every literal word of the stored document, then delete  *)
(* the keys whose posting list became empty.                               *)
(***************************************************************************)
reindex_keep_literal(idx, dcs, ids, id_) == idx

reindex_keep_empty(idx, dcs, ids, id_) ==
    IF id_ \in ids
    THEN LET words == lower_strip_words(dcs[id_])
         IN  [word \in DOMAIN idx |->
                 IF word \in words THEN idx[word] \ {id_} ELSE idx[word]]
    ELSE idx

reindex_all_terms(idx, dcs, ids, id_) ==
    IF id_ \in ids
    THEN LET literal == lower_strip_words(dcs[id_])
             words == literal \cup UNION {get_word_forms(w)[pos] :
                                             w \in literal, pos \in {"n", "a", "v", "r"}}
             removed == [word \in DOMAIN idx |->
                            IF word \in words THEN idx[word] \ {id_} ELSE idx[word]]
         IN  [word \in {w \in DOMAIN idx : removed[w] # {}} |-> removed[word]]
    ELSE idx

reindex_drop_bucket(idx, dcs, ids, id_) ==
    IF id_ \in ids
    THEN LET words == lower_strip_words(dcs[id_])
             hit == {word \in words : word \in DOMAIN idx /\ id_ \in idx[word]}
         IN  [word \in (DOMAIN idx) \ hit |-> idx[word]]
    ELSE idx

reindex_if_doc_in_db(idx, dcs, ids, id_) ==
    IF id_ \in ids
    THEN LET words == lower_strip_words(dcs[id_])
             hit == {word \in words : word \in DOMAIN idx /\ id_ \in idx[word]}
             removed == [word \in DOMAIN idx |->
                            IF word \in hit THEN idx[word] \ {id_} ELSE idx[word]]
             empty_buckets == {word \in hit : Cardinality(removed[word]) = 0}
         IN  [word \in (DOMAIN idx) \ empty_buckets |-> removed[word]]
    ELSE idx

\* __reindex_if_doc_in_db ends in an error when the stored document is missing
\* (KeyError) or one of its tokens cannot be stripped (IndexError), before
\* it has changed anything.
reindex_raises(dcs, ids, id_) ==
    id_ \in ids /\ (id_ \notin DOMAIN dcs \/ lower_strip_words_raises(dcs[id_]))

\* Database.__init_index_entry
init_index_entry(idx, word) ==
    IF word \notin DOMAIN idx
    THEN [w \in (DOMAIN idx) \cup {word} |-> IF w = word THEN {} ELSE idx[w]]
    ELSE idx

index_words_literal(doc) == lower_strip_words(doc)

index_words_verbs(doc) ==
    UNION { {word} \cup get_word_forms(word)["v"] : word \in lower_strip_words(doc) }

\* The set `words` built by Database.index: every literal word and every
\* variation of every part of speech.
index_words(doc) ==
    UNION { {word} \cup UNION {get_word_forms(word)[pos] : pos \in DOMAIN get_word_forms(word)}
            : word \in lower_strip_words(doc) }

RECURSIVE add_postings_overwrite(_, _, _)
add_postings_overwrite(idx, words, id_) ==
    IF words = {} THEN idx
    ELSE LET variation == CHOOSE w \in words : TRUE
             entry == init_index_entry(idx, variation)
         IN  add_postings_overwrite([entry EXCEPT ![variation] = {id_}],
                                    words \ {variation}, id_)

\* The last loop of Database.index: one entry per variation, id_ added.
RECURSIVE add_postings(_, _, _)
add_postings(idx, words, id_) ==
    IF words = {} THEN idx
    ELSE LET variation == CHOOSE w \in words : TRUE
             entry == init_index_entry(idx, variation)
         IN  add_postings([entry EXCEPT ![variation] = @ \cup {id_}],
                          words \ {variation}, id_)

index_after_swapped(idx, dcs, ids, doc, id_) ==
    reindex_if_doc_in_db(add_postings(idx, index_words(doc), id_), dcs, ids, id_)

index_after(idx, dcs, ids, doc, id_) ==
    add_postings(reindex_if_doc_in_db(idx, dcs, ids, id_), index_words(doc), id_)

dict_set_merge(d, k, v) ==
    [x \in (DOMAIN d) \cup {k} |->
        IF x # k THEN d[x]
        ELSE IF k \in DOMAIN d
             THEN [f \in (DOMAIN d[k]) \cup (DOMAIN v) |->
                      IF f \in DOMAIN v THEN v[f] ELSE d[k][f]]
             ELSE v]

dict_set_only(d, k, v) == [x \in {k} |-> v]

\* dict assignment d[k] = v
dict_set(d, k, v) == [x \in (DOMAIN d) \cup {k} |-> IF x = k THEN v ELSE d[x]]

(***************************************************************************)
(* Database.match: the ids collected token by token, then list(set).       *)
(***************************************************************************)
RECURSIVE match_ids_stripping(_, _, _)
match_ids_stripping(idx, tokens, match_ids) ==
    IF tokens = <<>> THEN match_ids
    ELSE LET key == strip_key(str_lower(Head(tokens)))
         IN  match_ids_stripping(idx, Tail(tokens),
                 IF key \in DOMAIN idx THEN match_ids \cup idx[key] ELSE match_ids)

RECURSIVE match_ids_from(_, _, _)
match_ids_from(idx, tokens, match_ids) ==
    IF tokens = <<>> THEN match_ids
    ELSE LET key == str_lower(Head(tokens))
         IN  match_ids_from(idx, Tail(tokens),
                 IF key \in DOMAIN idx THEN match_ids \cup idx[key] ELSE match_ids)

match_ids_of(idx, text) == match_ids_from(idx, str_split(text), {})

\* list(match_ids): the elements of the set, each once, in some order
Lists(S) == {l \in [1..Cardinality(S) -> S] : Range(l) = S}

(***************************************************************************)
(* State machine                                                           *)
(***************************************************************************)
Init ==
    /\ docs = <<>>
    /\ index = <<>>
    /\ doc_ids = {}
    /\ passed = <<>>
    /\ last = [op |-> "init"]
    /\ call = [pc |-> "idle"]

\* The record of an index call: its arguments, whether id_ was known and the
\* document it held, the inverted index before the call, and whether the
\* call ended in an error.
IndexCall(doc, id_, error) ==
    [op |-> "index", id |-> id_, doc |-> doc,
     replaced |-> id_ \in doc_ids,
     old |-> IF id_ \in doc_ids /\ id_ \in DOMAIN docs THEN docs[id_] ELSE EmptyDoc,
     before |-> index,
     error |-> error]

\* Database.index(doc, id_), as one step.  An error raised at line 21 leaves
\* the Database as it was; one raised at line 26 leaves it after lines 21-23.
Index(doc, id_) ==
    /\ call.pc = "idle"
    /\ passed' = [x \in (DOMAIN passed) \cup {id_} |-> IF x = id_ THEN doc ELSE passed[x]]
    /\ IF reindex_raises(docs, doc_ids, id_)
       THEN /\ last' = IndexCall(doc, id_, TRUE)
            /\ UNCHANGED <<docs, index, doc_ids>>
       ELSE /\ doc_ids' = doc_ids \cup {id_}
            /\ docs' = dict_set(docs, id_, doc)
            /\ IF lower_strip_words_raises(doc)
               THEN /\ index' = reindex_if_doc_in_db(index, docs, doc_ids, id_)
                    /\ last' = IndexCall(doc, id_, TRUE)
               ELSE /\ index' = index_after(index, docs, doc_ids, doc, id_)
                    /\ last' = IndexCall(doc, id_, FALSE)
    /\ UNCHANGED call

Match_aliasing(text) ==
    LET tokens == str_split(text)
        keys == [i \in 1..Len(tokens) |-> str_lower(tokens[i])]
        hits == SelectSeq(keys, LAMBDA k : k \in DOMAIN index)
        match_ids == match_ids_of(index, text)
    IN  /\ \E result \in Lists(match_ids) :
              last' = [op |-> "match", text |-> text, result |-> result,
                       before |-> <<docs, index, doc_ids>>, error |-> FALSE]
        /\ index' = IF hits = <<>> THEN index
                    ELSE [index EXCEPT ![Head(hits)] = match_ids]
        /\ UNCHANGED <<docs, doc_ids, passed, call>>

\* Database.match(text): no statement of it can raise for a str.
Match(text) ==
    /\ \E result \in Lists(match_ids_of(index, text)) :
          last' = [op |-> "match", text |-> text, result |-> result,
                   before |-> <<docs, index, doc_ids>>, error |-> FALSE]
    /\ UNCHANGED <<docs, index, doc_ids, passed, call>>

\* The caller changes the dict it passed to index: Database.index stored
\* the caller's object itself, so the stored document changes with it.
MutateCallerDoc(id_, doc) ==
    /\ id_ \in doc_ids
    /\ docs[id_] # doc
    /\ docs' = [docs EXCEPT ![id_] = doc]
    /\ last' = [op |-> "mutate", id |-> id_, doc |-> doc]
    /\ UNCHANGED <<index, doc_ids, passed, call>>

Next ==
    \/ \E doc \in Docs, id_ \in Ids : Index(doc, id_)
    \/ \E text \in Queries : Match(text)

Spec == Init /\ [][Next]_vars

\* Inputs of the runs in which the caller changes a document it has passed
AliasIds == {1}

AliasDocs == {doc \in Docs : DOMAIN doc \in {{}, {"Howard", "Penny"}, {"Sheldon"}}}

NextAlias ==
    \/ \E doc \in AliasDocs, id_ \in AliasIds : Index(doc, id_)
    \/ \E text \in Queries : Match(text)
    \/ \E doc \in AliasDocs, id_ \in AliasIds : MutateCallerDoc(id_, doc)

SpecAlias == Init /\ [][NextAlias]_vars

(***************************************************************************)
(* Database.index running next to a reader without synchronization: the    *)
(* removal (line 21) and the rest of the call (lines 22-35) are two steps,  *)
(* and a match call may run between them.  The inputs are the valid ones,   *)
(* for which no step raises.                                               *)
(***************************************************************************)
ConcIds == {None, 1}

ConcQueries == {bang, <<"ß">> \o SP \o wait \o <<"!">>}

BeginIndex(doc, id_) ==
    /\ call.pc = "idle"
    /\ index' = reindex_if_doc_in_db(index, docs, doc_ids, id_)
    /\ call' = [pc |-> "removed", id |-> id_, doc |-> doc,
                replaced |-> id_ \in doc_ids,
                old |-> IF id_ \in doc_ids THEN docs[id_] ELSE EmptyDoc,
                before |-> index]
    /\ last' = [op |-> "begin"]
    /\ UNCHANGED <<docs, doc_ids, passed>>

EndIndex ==
    /\ call.pc = "removed"
    /\ doc_ids' = doc_ids \cup {call.id}
    /\ docs' = dict_set(docs, call.id, call.doc)
    /\ index' = add_postings(index, index_words(call.doc), call.id)
    /\ passed' = [x \in (DOMAIN passed) \cup {call.id} |->
                      IF x = call.id THEN call.doc ELSE passed[x]]
    /\ last' = [op |-> "index", id |-> call.id, doc |-> call.doc,
                replaced |-> call.replaced, old |-> call.old,
                before |-> call.before, error |-> FALSE]
    /\ call' = [pc |-> "idle"]

NextConc ==
    \/ \E doc \in Docs, id_ \in ConcIds : BeginIndex(doc, id_)
    \/ EndIndex
    \/ \E text \in ConcQueries : Match(text)

SpecConc == Init /\ [][NextConc]_vars

(***************************************************************************)
(* Normalization of one document token (line 61: strip_key(word.lower())), *)
(* for every token of up to MaxTokenLen characters.                        *)
(***************************************************************************)
MaxTokenLen == 3

TokenChars == {"a", "A", "!", ",", ".", "?"}

Tokens == UNION {[1..n -> TokenChars] : n \in 1..MaxTokenLen}

InitNorm ==
    /\ docs = <<>>
    /\ index = <<>>
    /\ doc_ids = {}
    /\ passed = <<>>
    /\ call = [pc |-> "idle"]
    /\ last \in {[op |-> "token", token |-> t] : t \in Tokens}

Normalize ==
    /\ last.op = "token"
    /\ last' = [op |-> "word", token |-> last.token,
                word |-> strip_key(str_lower(last.token))]
    /\ UNCHANGED <<docs, index, doc_ids, passed, call>>

NextNorm == Normalize

SpecNorm == InitNorm /\ [][NextNorm]_vars

TypeOK ==
    /\ doc_ids \subseteq Ids
    /\ DOMAIN docs = doc_ids
    /\ \A w \in DOMAIN index : index[w] \subseteq Ids

(***************************************************************************)
(* Properties                                                              *)
(***************************************************************************)
NonEmpty(S) == S \ {<<>>}

\* C1: after index(D2, I) on an id I that held D1, no literal word of D1
\* that is neither a literal word of D2 nor a variation of one is matched
\* to I.
C1_Replacement ==
    (last.op = "index" /\ last.replaced) =>
        \A W \in lower_strip_words(last.old) \ index_words(last.doc) :
            last.id \notin match_ids_of(index, W)

C1_Witness ==
    /\ last.op = "index" /\ last.replaced
    /\ NonEmpty(lower_strip_words(last.old)) \ index_words(last.doc) # {}
    /\ lower_strip_words(last.old) \cap lower_strip_words(last.doc) # {}

\* C2 as stated: every literal word of the document last indexed under I,
\* the empty word included, is matched to I.
C2_SelfMatchAnyWord ==
    \A I \in doc_ids : \A W \in lower_strip_words(passed[I]) :
        I \in match_ids_of(index, W)

\* C2 (amended): every non-empty literal word of the document last indexed
\* under I is matched to I, whether the word is new or was shared with the
\* replaced document.
C2_SelfMatch ==
    \A I \in doc_ids : \A W \in NonEmpty(lower_strip_words(passed[I])) :
        I \in match_ids_of(index, W)

C2_Witness ==
    /\ last.op = "index" /\ last.replaced
    /\ NonEmpty(lower_strip_words(last.doc)) \cap lower_strip_words(last.old) # {}
    /\ NonEmpty(lower_strip_words(last.doc)) \ lower_strip_words(last.old) # {}

\* C3: every (term, id) pair of the inverted index has its term in the
\* expanded term set of the document stored under id.
C3_NoStalePostings ==
    \A term \in DOMAIN index : \A I \in index[term] :
        I \in doc_ids /\ term \in index_words(docs[I])

\* C4: the result of match(text) lists, each id once, exactly the union of
\* the posting lists of the lower-cased whitespace-delimited tokens of text
\* (tokens taken as they are: no stripping, no expansion), and is empty when
\* no token is a key.
C4_MatchIsUnionOfPostings ==
    last.op = "match" =>
        LET keys == {str_lower(t) : t \in Range(str_split(last.text))} \cap DOMAIN index
            expected == UNION {index[k] : k \in keys}
        IN  /\ Range(last.result) = expected
            /\ Len(last.result) = Cardinality(expected)
            /\ (keys = {} => last.result = <<>>)

C4_Witness ==
    /\ last.op = "match"
    /\ Len(last.result) >= 2
    /\ Len(str_split(last.text)) >= 2

\* C5: for every indexed word W, match of W upper-cased and match of W
\* lower-cased give the same set of ids.
C5_CaseInsensitive ==
    \A W \in DOMAIN index :
        match_ids_of(index, str_upper(W)) = match_ids_of(index, str_lower(W))

\* The words of the checked inputs, with their variations
Words == UNION {index_words(doc) : doc \in Docs}

FormsOf(W) == UNION {get_word_forms(W)[pos] : pos \in DOMAIN get_word_forms(W)}

\* C6 as stated: if the document last indexed under I contains W or a form
\* of W, the empty word included, then W and every form of W are matched
\* to I.
C6_MorphologicalClosureAnyWord ==
    \A I \in doc_ids : \A W \in Words :
        (lower_strip_words(passed[I]) \cap ({W} \cup FormsOf(W)) # {}) =>
            \A F \in {W} \cup FormsOf(W) : I \in match_ids_of(index, F)

\* C6 (amended): if the document last indexed under I contains a non-empty
\* word W or a form of W, then W and every form of W are matched to I.
C6_MorphologicalClosure ==
    \A I \in doc_ids : \A W \in NonEmpty(Words) :
        (lower_strip_words(passed[I]) \cap ({W} \cup FormsOf(W)) # {}) =>
            \A F \in {W} \cup FormsOf(W) : I \in match_ids_of(index, F)

C6_Witness ==
    \E I \in doc_ids : \E W \in NonEmpty(Words) :
        /\ W \notin lower_strip_words(passed[I])
        /\ lower_strip_words(passed[I]) \cap FormsOf(W) # {}
        /\ Cardinality(FormsOf(W)) >= 3
        /\ last.op = "index" /\ last.id = I /\ last.replaced

\* C7 as stated: a literal word W, the empty word included, of the
\* documents last indexed under two ids I and J is matched to both.
C7_UnionAcrossDocsAnyWord ==
    \A I, J \in doc_ids :
        I # J =>
            \A W \in lower_strip_words(passed[I]) \cap lower_strip_words(passed[J]) :
                {I, J} \subseteq match_ids_of(index, W)

\* C7 (amended): a non-empty literal word W of the documents last indexed
\* under two different ids I and J is matched to both I and J, whatever the
\* order of the index calls.
C7_UnionAcrossDocs ==
    \A I, J \in doc_ids :
        I # J =>
            \A W \in NonEmpty(lower_strip_words(passed[I]) \cap lower_strip_words(passed[J])) :
                {I, J} \subseteq match_ids_of(index, W)

C7_Witness ==
    \E I, J \in doc_ids :
        /\ I # J
        /\ passed[I] # passed[J]
        /\ NonEmpty(lower_strip_words(passed[I]) \cap lower_strip_words(passed[J])) # {}
        /\ last.op = "index" /\ last.id = J /\ last.replaced

\* C8: after every index call no key of the inverted index has an empty
\* posting list.
C8_NoEmptyPostingList ==
    \A term \in DOMAIN index : index[term] # {}

C8_Witness ==
    /\ last.op = "index" /\ last.replaced
    /\ \E W \in lower_strip_words(last.old) : W \notin DOMAIN index

\* C9: two documents indexed by successive calls without an id are both
\* retained, under two different identifiers, and both matchable.
C9_AutomaticId ==
    [][ (/\ last.op = "index" /\ last.id = None
         /\ last'.op = "index" /\ last'.id = None)
        => \E I, J \in doc_ids' :
              /\ I # J
              /\ docs'[I] = last.doc
              /\ docs'[J] = last'.doc
              /\ \A W \in NonEmpty(lower_strip_words(last.doc)) :
                     I \in match_ids_of(index', W)
              /\ \A W \in NonEmpty(lower_strip_words(last'.doc)) :
                     J \in match_ids_of(index', W) ]_vars

\* C10: when the caller changes a document after index(doc, I) returned,
\* no match result changes, and a later index call on I takes I out of
\* exactly the posting lists of the words doc had when it was indexed.
C10_EngineKeepsOwnCopy ==
    [][ /\ (last'.op = "mutate" =>
               \A text \in Queries :
                   match_ids_of(index', text) = match_ids_of(index, text))
        /\ ((last'.op = "index" /\ last'.replaced) =>
               reindex_if_doc_in_db(index, docs, doc_ids, last'.id)
                 = reindex_if_doc_in_db(index, passed, doc_ids, last'.id)) ]_vars

\* C11: the Doc Store holds one document per identifier, the one passed to
\* the most recent index call for that identifier, not merged with an
\* earlier one.
C11_DocStoreHoldsLastPassed ==
    /\ DOMAIN docs = DOMAIN passed
    /\ \A I \in DOMAIN docs : docs[I] = passed[I]
    /\ (last.op = "index" => docs[last.id] = last.doc)

C11_Witness ==
    /\ last.op = "index" /\ last.replaced
    /\ ~(DOMAIN last.old \subseteq DOMAIN last.doc)
    /\ Cardinality(DOMAIN docs) >= 2

\* C12: no index call and no match call ends in an error, whatever the
\* field map (empty, whitespace-only values, punctuation-only tokens) and
\* whether the identifier is new or known; a document without tokens
\* indexed under a new identifier contributes no term.
C12_NoError ==
    /\ (last.op \in {"index", "match"} => ~last.error)
    /\ ((/\ last.op = "index" /\ ~last.replaced
         /\ \A f \in DOMAIN last.doc : str_split(last.doc[f]) = <<>>)
        => \A term \in DOMAIN index : last.id \notin index[term])

C12_Witness ==
    /\ last.op = "index" /\ last.replaced /\ ~last.error
    /\ <<>> \in lower_strip_words(last.doc)
    /\ \E f \in DOMAIN last.old : str_split(last.old[f]) = <<>>

\* The posting list of a term; a term that is no key has none
Postings(idx, term) == IF term \in DOMAIN idx THEN idx[term] ELSE {}

\* C13: an index call on a known id I takes I out of the posting lists of
\* the old document's literal words (unless the new document's expansion
\* adds it again) and leaves the membership of I unchanged in every other
\* posting list the new document does not add it to: postings of I under
\* variants of the old document's words stay.
C13_TargetedRemoval ==
    (last.op = "index" /\ last.replaced /\ ~last.error) =>
        LET I == last.id
            olds == lower_strip_words(last.old)
            news == index_words(last.doc)
        IN  \A term \in (DOMAIN index) \cup (DOMAIN last.before) :
                /\ (term \in olds \ news => I \notin Postings(index, term))
                /\ (term \notin olds \cup news =>
                       (I \in Postings(index, term) <=> I \in Postings(last.before, term)))

C13_Witness ==
    /\ last.op = "index" /\ last.replaced
    /\ lower_strip_words(last.old) \ index_words(last.doc) # {}
    /\ \E term \in index_words(last.old) \ (lower_strip_words(last.old) \cup index_words(last.doc)) :
           last.id \in Postings(index, term)

\* C14: after index(D, I) on an id not used before, the terms whose
\* posting list contains I are exactly the literal normalized words of D's
\* field values and every variant the Morphology Provider returns for them
\* in any category; nothing else (no field name) is a term of I.
C14_TermsOfNewDocument ==
    (last.op = "index" /\ ~last.replaced /\ ~last.error) =>
        LET literal == UNION { {strip_key(str_lower(t)) : t \in Range(str_split(last.doc[f]))}
                               : f \in DOMAIN last.doc }
            variants == UNION {FormsOf(w) : w \in literal}
        IN  {term \in DOMAIN index : last.id \in index[term]} = literal \cup variants

C14_Witness ==
    /\ last.op = "index" /\ ~last.replaced
    /\ Cardinality(DOMAIN last.doc) >= 2
    /\ \E term \in DOMAIN index :
           /\ last.id \in index[term]
           /\ term \notin lower_strip_words(last.doc)
           /\ term \in get_word_forms(prove)["n"]

\* C15: the normalized word is the token lower-cased, without its last
\* character when that character is ',', '!' or '.', and with every other
\* character (leading punctuation, a second trailing punctuation character,
\* any other character) kept.
C15_Normalization ==
    last.op = "word" =>
        LET t == last.token
            w == last.word
        IN  /\ Len(w) = IF t[Len(t)] \in {",", "!", "."} THEN Len(t) - 1 ELSE Len(t)
            /\ \A i \in 1..Len(w) : w[i] = IF t[i] = "A" THEN "a" ELSE t[i]

C15_Witness ==
    /\ last.op = "word"
    /\ last.token = <<"A", "!", "!">>
    /\ last.word = <<"a", "!">>

\* C16: a match call leaves the Doc Store, the set of known ids and the
\* Inverted Index as they were before the call, so the same match again
\* returns the same set.
C16_MatchReadOnly ==
    last.op = "match" =>
        /\ last.before = <<docs, index, doc_ids>>
        /\ match_ids_of(index, last.text) = Range(last.result)

C16_Witness ==
    /\ last.op = "match"
    /\ Cardinality(Range(last.result)) >= 2
    /\ \E k \in DOMAIN index : Cardinality(index[k]) = 1

\* C17: while an index call that replaces the document of id I is between
\* its removal step and its insertion step, a word W that is a literal word
\* of both the old and the new document is not matched to I, so a match
\* call running at that point returns a result without I.
C17_TransientOmission ==
    (call.pc = "removed" /\ call.replaced) =>
        \A W \in lower_strip_words(call.old) \cap lower_strip_words(call.doc) :
            call.id \notin match_ids_of(index, W)

C17_Witness ==
    /\ call.pc = "removed" /\ call.replaced /\ call.old # call.doc
    /\ last.op = "match"
    /\ \E W \in NonEmpty(lower_strip_words(call.old) \cap lower_strip_words(call.doc)) :
           /\ \E t \in Range(str_split(last.text)) : str_lower(t) = W
           /\ call.id \in Postings(call.before, W)
    /\ call.id \notin Range(last.result)

\* C18: an index call with id I, new or known, neither adds nor removes
\* any other identifier in any posting list, and for every text the ids
\* other than I that match returns are the same before and after the call.
C18_FrameOnOtherDocuments ==
    last.op = "index" =>
        /\ \A term \in (DOMAIN index) \cup (DOMAIN last.before) :
               Postings(index, term) \ {last.id} = Postings(last.before, term) \ {last.id}
        /\ \A text \in Queries :
               match_ids_of(index, text) \ {last.id}
                 = match_ids_of(last.before, text) \ {last.id}

C18_Witness ==
    /\ last.op = "index" /\ last.replaced
    /\ \E term \in lower_strip_words(last.old) \ index_words(last.doc) :
           Postings(index, term) \ {last.id} # {}
    /\ \E term \in index_words(last.doc) :
           /\ Postings(last.before, term) \ {last.id} # {}
           /\ last.id \notin Postings(last.before, term)

\* C19: an index call that passes the document already stored under its id
\* (the second of two equal calls in a row) leaves the Doc Store and the
\* Inverted Index as they were.
C19_IndexIdempotent ==
    (last.op = "index" /\ last.replaced /\ last.old = last.doc) =>
        /\ index = last.before
        /\ docs[last.id] = last.old
        /\ ~last.error

C19_Witness ==
    /\ last.op = "index" /\ last.replaced /\ last.old = last.doc
    /\ lower_strip_words(last.doc) # {}
    /\ \E term \in DOMAIN index :
           last.id \in index[term] /\ term \notin index_words(last.doc)
    /\ \E term \in lower_strip_words(last.doc) : index[term] = {last.id}

\* C20: the set of known ids is the key set of the Doc Store, every id of
\* every posting list is one of them, and match returns no other id.
C20_KnownIds ==
    /\ doc_ids = DOMAIN docs
    /\ \A term \in DOMAIN index : index[term] \subseteq doc_ids
    /\ (last.op = "match" => Range(last.result) \subseteq DOMAIN docs)

C20_Witness ==
    /\ last.op = "index" /\ last.replaced
    /\ doc_ids = Ids
    /\ \E term \in DOMAIN index : index[term] = Ids

====
